---- MODULE Spec2Model ----
(***************************************************************************)
(* Article lifecycle of the news collection pipeline                       *)
(* (src/Code/scrap_gameloft.py): the SQLite article store, the SearXNG     *)
(* collector, the trafilatura extraction with its snippet fallback, the    *)
(* chunk/embed/upload batcher and the topic loop that drives them.         *)
(*                                                                         *)
(* Python values.  A str is the window [s, s+n) of a source text named k,  *)
(* of which the first `lead` and the last `trail` characters are           *)
(* whitespace; None is the Python None (SQL NULL in a column); Missing     *)
(* stands for a key that a dict does not have.                             *)
(***************************************************************************)
EXTENDS Integers, Sequences, FiniteSets, TLC

None == [py |-> "None"]
Missing == [py |-> "missing"]
Str(k, n) == [py |-> "str", k |-> k, s |-> 0, n |-> n, lead |-> 0, trail |-> 0]
Padded(k, n, lead, trail) ==
    [py |-> "str", k |-> k, s |-> 0, n |-> n, lead |-> lead, trail |-> trail]
Empty == Str("", 0)

Min(a, b) == IF a <= b THEN a ELSE b
Max(a, b) == IF a >= b THEN a ELSE b

IsStr(v) == v.py = "str"
\* A value json.dumps cannot encode (a datetime, an lxml element).
PyObject == [py |-> "object"]
\* Python truthiness of None / str / object: `not v`, `if v:`, `a or b`.
Truthy(v) == (IsStr(v) /\ v.n > 0) \/ v = PyObject
Or(a, b) == IF Truthy(a) THEN a ELSE b
\* dict.get(key, default): the default only replaces an absent key.
Get(d, key, default) == IF d[key] = Missing THEN default ELSE d[key]
\* len(v) and v.strip() of a str.
PyLen(v) == v.n
Strip(v) ==
    IF v.lead + v.trail >= v.n
    THEN Empty
    ELSE [v EXCEPT !.s = v.s + v.lead, !.n = v.n - v.lead - v.trail,
                   !.lead = 0, !.trail = 0]
\* v[:m] of a str (v[:m] of None raises TypeError: see Sliceable).
Take(v, m) ==
    IF m >= v.n
    THEN v
    ELSE [v EXCEPT !.n = m,
                   !.lead = Min(v.lead, m),
                   !.trail = Max(0, v.trail - (v.n - m))]
Sliceable(v) == IsStr(v)
\* json.dumps(obj): a JSON text, which is never None.
JsonDumps(obj) == [py |-> "json", of |-> obj]

(***************************************************************************)
(* Program constants.                                                      *)
(***************************************************************************)
CHUNK_SIZE == 500
CHUNK_OVERLAP == 100
MinRecordLen == 50
MinChunkLen == 20
DescriptionLen == 500

(***************************************************************************)
(* Bounds of the model.                                                    *)
(***************************************************************************)
NumTopics == 2
MaxPages == 2
MaxPolls == 2

(***************************************************************************)
(* Integers as Python values (process_limit is None or an int).            *)
(***************************************************************************)
PyInt(v) == [py |-> "int", v |-> v]
IntTruthy(v) == v.py = "int" /\ v.v # 0

(***************************************************************************)
(* The search collaborator's results: dicts decoded from JSON, so a key    *)
(* may be absent and a value may be null.                                  *)
(***************************************************************************)
\* A url is a str that also carries its netloc, the sequence of its
\* dot-separated labels, which is what urlparse reads from it.
RECURSIVE JoinLabels(_)
JoinLabels(labels) ==
    IF labels = <<>>
    THEN ""
    ELSE IF Len(labels) = 1
    THEN labels[1]
    ELSE labels[1] \o "." \o JoinLabels(Tail(labels))
UrlStr(scheme, netloc, path) ==
    LET text == scheme \o "://" \o JoinLabels(netloc) \o path
    IN  [py |-> "str", k |-> text, s |-> 0, n |-> Len(text), lead |-> 0,
         trail |-> 0, netloc |-> netloc]
Url1 == UrlStr("https", <<"a", "test">>, "/1")
Url2 == UrlStr("https", <<"www", "b", "test">>, "/2")
Url3 == UrlStr("https", <<"c", "test">>, "/3")
Url4 == UrlStr("https", <<"d", "test">>, "/4")
Url5 == UrlStr("https", <<"news", "www", "e", "test">>, "/5")
Urls == {Url1, Url2, Url3, Url4, Url5}

SourceDict(name) == [py |-> "dict", name |-> name]

SearchResult(url, title, content, date, source, img, thumb) ==
    [url |-> url, title |-> title, content |-> content, publishedDate |-> date,
     source |-> source, img_src |-> img, thumbnail |-> thumb]

\* A complete result with a long snippet.
ResA == SearchResult(Url1, Str("Title A", 7), Str("Snippet A", 620),
                     Str("2024-05-01", 10), SourceDict(Str("A News", 6)),
                     Str("https://a.test/a.png", 20), Missing)
\* The same url discovered again with other field values.
ResA2 == SearchResult(Url1, Str("Title A, updated", 16), Str("Snippet A2", 80),
                      Str("2024-05-02", 10), Str("A Wire", 6), Missing, Missing)
\* "content": null, a padded title, no source.
ResB == SearchResult(Url2, Padded("Title B", 60, 2, 3), None, Missing, Missing,
                     Missing, Str("https://b.test/t.png", 20))
\* Neither snippet nor title.
ResC == SearchResult(Url3, Empty, Missing, None, None, Missing, Missing)
\* "title": null, a short snippet.
ResD == SearchResult(Url4, None, Str("Snippet D", 49), Missing,
                     SourceDict(Missing), Missing, Missing)
\* A host with a www label that is not its first one; no source.
ResE == SearchResult(Url5, Str("Title E", 7), Str("Snippet E", 120), Missing,
                     Missing, Missing, Missing)
\* Malformed: no url, an empty url.
ResNoUrl == SearchResult(Missing, Str("Title X", 7), Str("Snippet X", 90),
                         Missing, Missing, Missing, Missing)
ResEmptyUrl == SearchResult(Empty, Str("Title Y", 7), Missing, Missing, Missing,
                            Missing, Missing)
ResNullUrl == SearchResult(None, Str("Title Z", 7), Str("Snippet Z", 90),
                           Missing, Missing, Missing, Missing)
SearchResults ==
    {ResA, ResA2, ResB, ResC, ResD, ResNoUrl, ResEmptyUrl, ResNullUrl}

(***************************************************************************)
(* NewsDatabase: the articles table, a sequence of rows in rowid order.    *)
(***************************************************************************)
\* str(source) of a source that is not a dict.
PyStr(v) == IF v = None THEN Str("None", 4) ELSE v

HasUrl(tbl, url) == \E i \in 1..Len(tbl) : tbl[i].url = url

\* The row INSERT OR IGNORE builds; processed and trafilatura_success take
\* their DEFAULT 0, the extracted columns are NULL.
NewRow(tbl, item, now) ==
    LET source == Get(item, "source", SourceDict(Missing))
    IN  [id |-> Len(tbl) + 1,
         url |-> Get(item, "url", Empty),
         title |-> Get(item, "title", Empty),
         content |-> Get(item, "content", Empty),
         published_date |-> Get(item, "publishedDate", Empty),
         source_name |-> IF source.py = "dict"
                         THEN Get(source, "name", Empty)
                         ELSE PyStr(source),
         img_src |-> Get(item, "img_src", Empty),
         thumbnail |-> Get(item, "thumbnail", Empty),
         searxng_data |-> JsonDumps(item),
         processed |-> 0,
         trafilatura_success |-> 0,
         extracted_content |-> None,
         extracted_metadata |-> None,
         created_at |-> now]

\* Faulty variant: INSERT OR REPLACE, a rediscovered url overwrites its row.
InsertOrReplace(tbl, item, now) ==
    LET url == Get(item, "url", Empty)
    IN  IF ~Truthy(url)
        THEN [tbl |-> tbl, ret |-> FALSE]
        ELSE IF HasUrl(tbl, url)
             THEN [tbl |-> [j \in 1..Len(tbl) |->
                              IF tbl[j].url = url
                              THEN [NewRow(tbl, item, now) EXCEPT !.id = tbl[j].id]
                              ELSE tbl[j]],
                   ret |-> TRUE]
             ELSE [tbl |-> Append(tbl, NewRow(tbl, item, now)), ret |-> TRUE]

\* Faulty variant: no `if not url: return False`, a result without url is
\* stored like any other.
InsertWithoutUrlCheck(tbl, item, now) ==
    LET url == Get(item, "url", Empty)
    IN  IF HasUrl(tbl, url)
        THEN [tbl |-> tbl, ret |-> FALSE]
        ELSE [tbl |-> Append(tbl, NewRow(tbl, item, now)), ret |-> TRUE]

\* insert_searxng_result: [tbl |-> the table afterwards, ret |-> its result].
InsertSearxngResult(tbl, item, now) ==
    LET url == Get(item, "url", Empty)
    IN  IF ~Truthy(url)
        THEN [tbl |-> tbl, ret |-> FALSE]
        ELSE IF HasUrl(tbl, url)
             THEN [tbl |-> tbl, ret |-> FALSE]
             ELSE [tbl |-> Append(tbl, NewRow(tbl, item, now)), ret |-> TRUE]

\* ORDER BY created_at: insertion sort, rows of one second in rowid order.
RECURSIVE OrderByCreatedAt(_)
InsertOrdered(sorted, row) ==
    LET before == SelectSeq(sorted, LAMBDA r : r.created_at <= row.created_at)
        after == SelectSeq(sorted, LAMBDA r : r.created_at > row.created_at)
    IN  before \o <<row>> \o after
OrderByCreatedAt(rows) ==
    IF rows = <<>>
    THEN <<>>
    ELSE InsertOrdered(OrderByCreatedAt(SubSeq(rows, 1, Len(rows) - 1)),
                       rows[Len(rows)])

\* Faulty variant: the query without WHERE processed = 0.
GetAllArticles(tbl, limit) ==
    LET rows == OrderByCreatedAt(tbl)
    IN  IF IntTruthy(limit)
        THEN SubSeq(rows, 1, Min(limit.v, Len(rows)))
        ELSE rows

\* get_unprocessed_articles(limit): `if limit:` adds LIMIT only for a
\* truthy limit.
GetUnprocessedArticles(tbl, limit) ==
    LET rows == OrderByCreatedAt(SelectSeq(tbl, LAMBDA r : r.processed = 0))
    IN  IF IntTruthy(limit)
        THEN SubSeq(rows, 1, Min(limit.v, Len(rows)))
        ELSE rows

\* Faulty variant: trafilatura_success = 1 whatever `success` is.
MarkAsProcessedAlwaysSuccess(tbl, url, success, content, metadata) ==
    [j \in 1..Len(tbl) |->
        IF tbl[j].url = url
        THEN [tbl[j] EXCEPT !.processed = 1,
                            !.trafilatura_success = 1,
                            !.extracted_content = content,
                            !.extracted_metadata = metadata]
        ELSE tbl[j]]

\* Faulty variant: the UPDATE is lost.
MarkAsProcessedLost(tbl, url, success, content, metadata) == tbl

\* mark_as_processed: UPDATE ... WHERE url = ?
MarkAsProcessed(tbl, url, success, content, metadata) ==
    [j \in 1..Len(tbl) |->
        IF tbl[j].url = url
        THEN [tbl[j] EXCEPT !.processed = 1,
                            !.trafilatura_success = IF success THEN 1 ELSE 0,
                            !.extracted_content = content,
                            !.extracted_metadata = metadata]
        ELSE tbl[j]]

\* mark_as_processed as a call on a database that may fail: sqlite3.connect
\* is called before the try ("connect": the exception leaves the method),
\* execute and commit inside it ("execute": the except branch logs, nothing
\* is committed and the method returns).
MarkAsProcessedCall(tbl, url, args, fault) ==
    IF fault = "connect"
    THEN [tbl |-> tbl, raised |-> TRUE]
    ELSE IF fault = "execute"
    THEN [tbl |-> tbl, raised |-> FALSE]
    ELSE [tbl |-> MarkAsProcessed(tbl, url, args.success, args.extracted_content,
                                  args.extracted_metadata),
          raised |-> FALSE]

\* get_domain: urlparse(url).netloc.replace('www.', '')
GetDomain(url) ==
    LET netloc == url.netloc
        marked == [j \in 1..Len(netloc) |->
                      [label |-> netloc[j], last |-> j = Len(netloc)]]
        kept == SelectSeq(marked, LAMBDA l : l.last \/ l.label # "www")
        domain == JoinLabels([j \in 1..Len(kept) |-> kept[j].label])
    IN  Str(domain, Len(domain))

\* Faulty variant: every row without the success flag counts as failed.
GetStatsFailedOfTotal(tbl) ==
    LET total == Len(tbl)
        processed == Len(SelectSeq(tbl, LAMBDA r : r.processed = 1))
        successful == Len(SelectSeq(tbl, LAMBDA r : r.trafilatura_success = 1))
    IN  [total |-> total,
         processed |-> processed,
         unprocessed |-> total - processed,
         trafilatura_successful |-> successful,
         trafilatura_failed |-> total - successful]

\* get_stats
GetStats(tbl) ==
    LET total == Len(tbl)
        processed == Len(SelectSeq(tbl, LAMBDA r : r.processed = 1))
        successful == Len(SelectSeq(tbl, LAMBDA r : r.trafilatura_success = 1))
    IN  [total |-> total,
         processed |-> processed,
         unprocessed |-> total - processed,
         trafilatura_successful |-> successful,
         trafilatura_failed |-> processed - successful]

(***************************************************************************)
(* Extraction.  What the network and trafilatura answer for one article:   *)
(* fetch1 / fetch2 are the two fetch_url calls ("html", "none" or          *)
(* "raise"), parse is trafilatura.extract ("ok" or "raise") with its text, *)
(* meta is extract_metadata(...).as_dict(), or None.                       *)
(***************************************************************************)
Html == Str("html", 4000)
ParsedLong == Str("Parsed body", 900)
ParsedShort == Str("Parsed stub", 30)

TrafMeta(title, date, author, sitename, description, image) ==
    [py |-> "dict", title |-> title, date |-> date, author |-> author,
     sitename |-> sitename, description |-> description, image |-> image]
MetaFull == TrafMeta(Str("Page title", 10), Str("2024-04-30", 10),
                     Str("An Author", 9), Str("Site", 4),
                     Str("Page description", 700), Str("https://img/p.png", 17))
MetaBare == TrafMeta(Str("Page title", 10), None, None, None, None, None)
\* Every field present and empty; a date json.dumps cannot encode.
MetaBlank == TrafMeta(Empty, Empty, Empty, Empty, Empty, Empty)
MetaDated == TrafMeta(Str("Page title", 10), PyObject, None, None, None, None)
\* `traf_meta.as_dict() if traf_meta else {}`
EmptyDict == TrafMeta(Missing, Missing, Missing, Missing, Missing, Missing)

ExtractionEnv(fetch1, fetch2, parse, text, meta) ==
    [fetch1 |-> fetch1, fetch2 |-> fetch2, parse |-> parse, text |-> text,
     meta |-> meta]
ExtractionEnvs ==
    {ExtractionEnv("html", "none", "ok", ParsedLong, MetaFull),
     ExtractionEnv("html", "none", "ok", ParsedShort, None),
     ExtractionEnv("none", "html", "ok", ParsedLong, MetaBare),
     ExtractionEnv("html", "none", "ok", None, MetaFull),
     ExtractionEnv("html", "none", "raise", None, None),
     ExtractionEnv("none", "none", "ok", None, None),
     ExtractionEnv("none", "raise", "ok", None, None),
     ExtractionEnv("raise", "none", "ok", None, None)}

\* The pages met when extract_and_format_enhanced is called on its own.
ExtractEnvs ==
    ExtractionEnvs
    \cup {ExtractionEnv("html", "none", "ok", ParsedLong, MetaBlank),
          ExtractionEnv("html", "none", "ok", None, MetaBlank),
          ExtractionEnv("html", "none", "ok", ParsedLong, MetaDated),
          ExtractionEnv("raise", "html", "ok", ParsedLong, MetaFull),
          ExtractionEnv("raise", "raise", "ok", ParsedLong, MetaFull)}

\* Faulty variant: a fetch that returns None is not repeated.
FetchWithoutRetry(env) ==
    [attempts |-> <<[no_ssl |-> FALSE]>>,
     downloaded |-> IF env.fetch1 = "html" THEN Html ELSE None]

\* fetch_with_strategy: the fetch_url calls made (no_ssl of each) and the
\* value returned.
FetchWithStrategy(env) ==
    IF env.fetch1 = "raise"
    THEN [attempts |-> <<[no_ssl |-> FALSE]>>, downloaded |-> None]
    ELSE IF env.fetch1 = "html"
    THEN [attempts |-> <<[no_ssl |-> FALSE]>>, downloaded |-> Html]
    ELSE [attempts |-> <<[no_ssl |-> FALSE], [no_ssl |-> TRUE]>>,
          downloaded |-> IF env.fetch2 = "html" THEN Html ELSE None]

\* clean_metadata of extract_and_format_enhanced (steps C); the description
\* is sliced, which needs a str.
DescriptionSource(meta, db_article) ==
    Or(Get(meta, "description", None), db_article.content)
CleanMetadata(meta, db_article, content_source, trafilatura_success) ==
    [title |-> Or(Get(meta, "title", None), db_article.title),
     date |-> Or(Get(meta, "date", None), db_article.published_date),
     author |-> Get(meta, "author", Empty),
     source |-> Or(Or(Get(meta, "sitename", None), db_article.source_name),
                   GetDomain(db_article.url)),
     url |-> db_article.url,
     description |-> Take(DescriptionSource(meta, db_article), DescriptionLen),
     image_url |-> Or(Or(Get(meta, "image", None), db_article.img_src),
                      db_article.thumbnail),
     content_source |-> content_source,
     trafilatura_success |-> trafilatura_success]

\* json.dumps(clean_metadata) raises TypeError on a value it cannot encode.
Serializable(clean_metadata) ==
    \A f \in {"title", "date", "author", "source", "description", "image_url"} :
       clean_metadata[f] # PyObject

Output(url, final_content, clean_metadata) ==
    [id |-> url, page_content |-> final_content, metadata |-> clean_metadata]

\* Faulty variant: the except branch returns None without marking.
ExtractErrorUnmarked(tbl, url, fetched, parse, parsed) ==
    [ret |-> <<>>, tbl |-> tbl, outcome |-> "ERROR",
     attempts |-> fetched.attempts, marks |-> 0,
     downloaded |-> Truthy(fetched.downloaded), parse |-> parse,
     parsed |-> parsed]

\* The except branch: mark_as_processed(url, success=False), return None.
ExtractError(tbl, url, fetched, parse, parsed) ==
    [ret |-> <<>>, tbl |-> MarkAsProcessed(tbl, url, FALSE, None, None),
     outcome |-> "ERROR", attempts |-> fetched.attempts, marks |-> 1,
     downloaded |-> Truthy(fetched.downloaded), parse |-> parse,
     parsed |-> parsed]

\* Faulty variant: the article without any content is marked processed.
ExtractFailedMarked(tbl, url, fetched, parse) ==
    [ret |-> <<>>, tbl |-> MarkAsProcessed(tbl, url, FALSE, None, None),
     outcome |-> "FAILED", attempts |-> fetched.attempts, marks |-> 1,
     downloaded |-> Truthy(fetched.downloaded), parse |-> parse,
     parsed |-> FALSE]

\* `if not final_content: ... return None`: nothing is written.
ExtractFailed(tbl, url, fetched, parse) ==
    [ret |-> <<>>, tbl |-> tbl, outcome |-> "FAILED",
     attempts |-> fetched.attempts, marks |-> 0,
     downloaded |-> Truthy(fetched.downloaded), parse |-> parse,
     parsed |-> FALSE]

\* Faulty variants: the fallback body is stored as extracted content; the
\* metadata is stored only when trafilatura succeeded.
ExtractedContentArgAlways(trafilatura_success, final_content) == final_content
ExtractedMetadataArgOnSuccess(trafilatura_success, clean_metadata) ==
    IF trafilatura_success THEN JsonDumps(clean_metadata) ELSE None

\* The extracted_content and extracted_metadata arguments of step E.
ExtractedContentArg(trafilatura_success, final_content) ==
    IF trafilatura_success THEN final_content ELSE None
ExtractedMetadataArg(trafilatura_success, clean_metadata) ==
    JsonDumps(clean_metadata)

\* extract_and_format_enhanced(db_article) on table tbl: ret is <<>> for
\* None and <<output>> otherwise; marks counts the mark_as_processed calls,
\* downloaded / parse / parsed tell how far the extraction got.
ExtractAndFormatEnhanced(tbl, db_article, env) ==
    LET url == db_article.url
        fetched == FetchWithStrategy(env)
        downloaded == fetched.downloaded
        parse == IF Truthy(downloaded) THEN env.parse ELSE "skipped"
        trafilatura_content == IF Truthy(downloaded) THEN env.text ELSE None
        trafilatura_metadata ==
            IF Truthy(downloaded) /\ env.meta # None THEN env.meta ELSE EmptyDict
        trafilatura_success == Truthy(downloaded) /\ Truthy(trafilatura_content)
        final_content ==
            IF trafilatura_success
            THEN trafilatura_content
            ELSE Or(db_article.content, db_article.title)
        content_source ==
            IF trafilatura_success THEN "trafilatura" ELSE "searxng_fallback"
        clean_metadata == CleanMetadata(trafilatura_metadata, db_article,
                                        content_source, trafilatura_success)
    IN  IF ~Truthy(url)
        THEN [ret |-> <<>>, tbl |-> tbl, outcome |-> "NO_URL",
              attempts |-> <<>>, marks |-> 0, downloaded |-> FALSE,
              parse |-> "skipped", parsed |-> FALSE]
        ELSE IF parse = "raise"
        THEN ExtractError(tbl, url, fetched, parse, FALSE)
        ELSE IF ~Truthy(final_content)
        THEN ExtractFailed(tbl, url, fetched, parse)
        ELSE IF ~Sliceable(DescriptionSource(trafilatura_metadata, db_article))
        THEN ExtractError(tbl, url, fetched, parse, trafilatura_success)
        ELSE IF ~Serializable(clean_metadata)
        THEN ExtractError(tbl, url, fetched, parse, trafilatura_success)
        ELSE [ret |-> <<Output(url, final_content, clean_metadata)>>,
              tbl |-> MarkAsProcessed(
                          tbl, url, trafilatura_success,
                          ExtractedContentArg(trafilatura_success, final_content),
                          ExtractedMetadataArg(trafilatura_success, clean_metadata)),
              outcome |-> IF trafilatura_success
                          THEN "DONE_PRIMARY" ELSE "DONE_FALLBACK",
              attempts |-> fetched.attempts, marks |-> 1,
              downloaded |-> Truthy(downloaded), parse |-> parse,
              parsed |-> trafilatura_success]

(***************************************************************************)
(* Chunk, embed, upload.                                                   *)
(***************************************************************************)
\* A body of several paragraphs: paras are their lengths, "\n\n" stands
\* between two of them; a paragraph holds no separator and is shorter than
\* chunk_size.
RECURSIVE SumLen(_)
SumLen(lens) == IF lens = <<>> THEN 0 ELSE Head(lens) + SumLen(Tail(lens))
Paragraphs(k, paras) ==
    [py |-> "str", k |-> k, s |-> 0, n |-> SumLen(paras) + 2 * (Len(paras) - 1),
     lead |-> 0, trail |-> 0, paras |-> paras]
HasParagraphs(content) == "paras" \in DOMAIN content

\* RecursiveCharacterTextSplitter(chunk_size, chunk_overlap).split_text.
\* A body of paragraphs is split at "\n\n", every split but the first
\* keeping the separator in front (keep_separator), and the splits are
\* merged (_merge_splits): a chunk is closed when the next split would
\* take it over chunk_size, splits are then dropped from its front until at
\* most chunk_overlap characters remain, and each chunk is stripped.
ParagraphSplits(content) ==
    [j \in 1..Len(content.paras) |->
        LET sep == IF j = 1 THEN 0 ELSE 2
            text == SumLen(SubSeq(content.paras, 1, j - 1)) + 2 * (j - 1)
        IN  [s |-> content.s + text - sep, n |-> content.paras[j] + sep,
             sep |-> sep]]
JoinDocs(content, current_doc) ==
    LET first == Head(current_doc)
        last == current_doc[Len(current_doc)]
    IN  [py |-> "str", k |-> content.k, s |-> first.s + first.sep,
         n |-> (last.s + last.n) - (first.s + first.sep), lead |-> 0,
         trail |-> 0]
RECURSIVE PopFront(_, _, _)
PopFront(current_doc, total, len) ==
    IF total > CHUNK_OVERLAP \/ (total + len > CHUNK_SIZE /\ total > 0)
    THEN PopFront(Tail(current_doc), total - Head(current_doc).n, len)
    ELSE [current_doc |-> current_doc, total |-> total]
RECURSIVE MergeSplits(_, _, _, _)
MergeSplits(content, splits, current_doc, total) ==
    IF splits = <<>>
    THEN IF current_doc = <<>> THEN <<>> ELSE <<JoinDocs(content, current_doc)>>
    ELSE LET d == Head(splits)
             full == total + d.n > CHUNK_SIZE /\ current_doc # <<>>
             kept == IF full
                     THEN PopFront(current_doc, total, d.n)
                     ELSE [current_doc |-> current_doc, total |-> total]
         IN  (IF full THEN <<JoinDocs(content, current_doc)>> ELSE <<>>)
             \o MergeSplits(content, Tail(splits), Append(kept.current_doc, d),
                            kept.total + d.n)

\* Faulty variant: the windows do not overlap.
WindowNoOverlap(content, i) ==
    LET start == (i - 1) * CHUNK_SIZE
    IN  [content EXCEPT !.s = content.s + start,
                        !.n = Min(CHUNK_SIZE, content.n - start)]

\* split_text on a body without inner separators.  Without padding the ""
\* separator cuts windows of chunk_size characters, each starting
\* chunk_size - chunk_overlap after the one before; a padded body of at most
\* chunk_size characters is split at its blanks and merged back into one
\* chunk, which is stripped.
NumWindows(n) ==
    IF n <= CHUNK_SIZE
    THEN 1
    ELSE ((n - CHUNK_SIZE + (CHUNK_SIZE - CHUNK_OVERLAP) - 1)
          \div (CHUNK_SIZE - CHUNK_OVERLAP)) + 1
Window(content, i) ==
    LET start == (i - 1) * (CHUNK_SIZE - CHUNK_OVERLAP)
    IN  [content EXCEPT !.s = content.s + start,
                        !.n = Min(CHUNK_SIZE, content.n - start)]
SplitText(content) ==
    CASE HasParagraphs(content) ->
           MergeSplits(content, ParagraphSplits(content), <<>>, 0)
      [] ~HasParagraphs(content) /\ content.lead = 0 /\ content.trail = 0 ->
           [i \in 1..NumWindows(content.n) |-> Window(content, i)]
      [] ~HasParagraphs(content) /\ content.lead + content.trail > 0
         /\ content.n <= CHUNK_SIZE ->
           IF Strip(content) = Empty THEN <<>> ELSE <<Strip(content)>>

\* combined_metadata: a copy of the record's metadata plus source_id.
\* Faulty variant: the metadata is copied without the source_id.
CombinedMetadataNoSourceId(record) == ("source_id" :> None) @@ record.metadata

CombinedMetadata(record) == ("source_id" :> record.id) @@ record.metadata

\* Faulty variant: the length of the body is taken without strip().
RecordChunksRawLength(record) ==
    LET content == record.page_content
    IN  IF ~Truthy(content) \/ PyLen(content) < MinRecordLen
        THEN <<>>
        ELSE LET kept == SelectSeq(SplitText(content),
                                   LAMBDA chunk : PyLen(Strip(chunk)) > MinChunkLen)
             IN  [i \in 1..Len(kept) |->
                     [text |-> kept[i], metadata |-> CombinedMetadata(record)]]

\* The chunks one record contributes to texts_to_embed / metadatas.
RecordChunks(record) ==
    LET content == record.page_content
    IN  IF ~Truthy(content) \/ PyLen(Strip(content)) < MinRecordLen
        THEN <<>>
        ELSE LET kept == SelectSeq(SplitText(content),
                                   LAMBDA chunk : PyLen(Strip(chunk)) > MinChunkLen)
             IN  [i \in 1..Len(kept) |->
                     [text |-> kept[i], metadata |-> CombinedMetadata(record)]]

RECURSIVE BatchChunks(_)
BatchChunks(records) ==
    IF records = <<>>
    THEN <<>>
    ELSE RecordChunks(records[1]) \o BatchChunks(Tail(records))

\* CustomBedrockEmbeddings.get_embedding of one text.
Embedding(text) == [py |-> "vector", of |-> text]

\* What the clients answer during one upload: init is the client
\* construction, embedFailAt the embed call that raises (0: none does),
\* insert the bulk insert.
UploadEnv(init, embedFailAt, insert) ==
    [init |-> init, embedFailAt |-> embedFailAt, insert |-> insert]

\* Faulty variant: the rows embedded before the failure are inserted.
EmbedFailedPartial(docs, data_to_insert, env) ==
    [docs |-> docs \o SubSeq(data_to_insert, 1, env.embedFailAt - 1),
     outcome |-> "embed_failed", embedCalls |-> env.embedFailAt,
     inserted |-> env.embedFailAt - 1]

\* An embed call raises inside embed_documents: the except branch logs and
\* the insert is never reached.
EmbedFailed(docs, data_to_insert, env) ==
    [docs |-> docs, outcome |-> "embed_failed",
     embedCalls |-> env.embedFailAt, inserted |-> 0]

\* process_and_upload_json_records(records) on the documents table docs.
ProcessAndUploadJsonRecords(docs, records, env) ==
    LET batch == BatchChunks(records)
        data_to_insert ==
            [i \in 1..Len(batch) |->
                [content |-> batch[i].text, metadata |-> batch[i].metadata,
                 embedding |-> Embedding(batch[i].text)]]
    IN  IF records = <<>>
        THEN [docs |-> docs, outcome |-> "no_records", embedCalls |-> 0,
              inserted |-> 0]
        ELSE IF env.init = "raise"
        THEN [docs |-> docs, outcome |-> "init_failed", embedCalls |-> 0,
              inserted |-> 0]
        ELSE IF batch = <<>>
        THEN [docs |-> docs, outcome |-> "no_content", embedCalls |-> 0,
              inserted |-> 0]
        ELSE IF env.embedFailAt \in 1..Len(batch)
        THEN EmbedFailed(docs, data_to_insert, env)
        ELSE IF env.insert = "raise"
        THEN [docs |-> docs, outcome |-> "insert_failed",
              embedCalls |-> Len(batch), inserted |-> 0]
        ELSE [docs |-> docs \o data_to_insert, outcome |-> "uploaded",
              embedCalls |-> Len(batch), inserted |-> Len(batch)]

(***************************************************************************)
(* The search collaborator and the collector.                              *)
(***************************************************************************)
PageAB == <<ResA, ResB>>
PageA2C == <<ResA2, ResC>>
PageD == <<ResNoUrl, ResEmptyUrl, ResD>>
SearchResponse(err, results) == [err |-> err, results |-> results]
SearchResponses ==
    {SearchResponse(FALSE, PageAB), SearchResponse(FALSE, PageA2C),
     SearchResponse(FALSE, PageD), SearchResponse(FALSE, <<>>),
     SearchResponse(TRUE, <<>>)}

\* Faulty variant: a failed page is answered with a placeholder entry, so
\* the collector goes on to the next page.
GetSearxngNewsPlaceholder(resp) ==
    IF resp.err THEN <<ResNoUrl>> ELSE resp.results

\* get_searxng_news: any exception is logged and answered with [].
GetSearxngNews(resp) == IF resp.err THEN <<>> ELSE resp.results

\* The inner loop of collect_searxng_articles over one page's items.
RECURSIVE InsertItems(_, _, _)
\* Faulty variant: every item of the page is counted as new.
InsertItemsCountAll(tbl, items, now) ==
    IF items = <<>>
    THEN [tbl |-> tbl, new_items_count |-> 0]
    ELSE LET first == InsertSearxngResult(tbl, items[1], now)
             rest == InsertItems(first.tbl, Tail(items), now)
         IN  [tbl |-> rest.tbl, new_items_count |-> 1 + rest.new_items_count]
InsertItems(tbl, items, now) ==
    IF items = <<>>
    THEN [tbl |-> tbl, new_items_count |-> 0]
    ELSE LET first == InsertSearxngResult(tbl, items[1], now)
             rest == InsertItems(first.tbl, Tail(items), now)
         IN  [tbl |-> rest.tbl,
              new_items_count |-> (IF first.ret THEN 1 ELSE 0)
                                  + rest.new_items_count]

\* Faulty variant: an empty page does not end the page loop.
NeverStops(items) == FALSE

\* `if not items: ... break` of the page loop.
NoMoreResults(items) == items = <<>>

\* Faulty variant: the result is put in front of the list.
PrependResult(processed_records, result) == result \o processed_records

\* `if result: processed_records.append(result)`; result is <<>> for None.
AppendResult(processed_records, result) == processed_records \o result

ProcessLimits == {None, PyInt(0), PyInt(1)}

(***************************************************************************)
(* State.  articles and documents are the two stores, clock the second     *)
(* CURRENT_TIMESTAMP reads; pc, topic, page_num, total_new_articles, work, *)
(* i, processed_records and process_limit are the position and locals of   *)
(* the topic loop and of run_complete_pipeline.  The remaining variables   *)
(* record what happened, for the properties below; the program does not    *)
(* read them: started / raised / finished are the topics whose run was     *)
(* started / ended in the loop's except branch / returned, lastInsert,     *)
(* lastMark, lastList, lastStats, lastCollect, lastExtract and lastUpload  *)
(* describe the latest call of the operation, and how[url] lists the       *)
(* extractions tried on the row of url (the path each took and the run it  *)
(* happened in).                                                           *)
(***************************************************************************)
VARIABLES articles, documents, clock, pc, topic, page_num, total_new_articles,
          work, i, processed_records, process_limit, started, raised,
          finished, lastInsert, lastMark, lastList, lastStats, lastCollect,
          lastExtract, lastUpload, how, collectors, pipe

vars == <<articles, documents, clock, pc, topic, page_num, total_new_articles,
          work, i, processed_records, process_limit, started, raised,
          finished, lastInsert, lastMark, lastList, lastStats, lastCollect,
          lastExtract, lastUpload, how, collectors, pipe>>

apiVars == <<lastInsert, lastMark, lastList, lastStats, collectors, pipe>>

loopVars == <<pc, topic, page_num, total_new_articles, work, i,
              processed_records, process_limit, started, raised, finished>>

NoCall == [called |-> FALSE]
Last(seq) == seq[Len(seq)]

\* Two collector processes share the database file.
Procs == {1, 2}
Idle == [pc |-> "idle"]

Init ==
    /\ articles = <<>>
    /\ documents = <<>>
    /\ clock = 0
    /\ pc = "main"
    /\ topic = 0
    /\ page_num = 0
    /\ total_new_articles = 0
    /\ work = <<>>
    /\ i = 0
    /\ processed_records = <<>>
    /\ process_limit = None
    /\ started = <<>>
    /\ raised = {}
    /\ finished = {}
    /\ lastInsert = NoCall
    /\ lastMark = NoCall
    /\ lastList = NoCall
    /\ lastStats = NoCall
    /\ lastCollect = NoCall
    /\ lastExtract = NoCall
    /\ lastUpload = NoCall
    /\ how = [u \in Urls |-> <<>>]
    /\ collectors = [lock |-> 0, proc |-> [p \in Procs |-> Idle]]
    /\ pipe = [pc |-> "idle"]

\* The locals of run_complete_pipeline and of the functions it calls end
\* with the call (and with them the record of the collect call).
NoLocals ==
    /\ lastCollect' = NoCall
    /\ page_num' = 0
    /\ total_new_articles' = 0
    /\ work' = <<>>
    /\ i' = 0
    /\ processed_records' = <<>>
    /\ process_limit' = None

\* Faulty variant: the exception of one topic ends the loop.
OnTopicExceptionAbort ==
    /\ pc' = "done"
    /\ raised' = raised \cup {topic}
    /\ NoLocals
    /\ UNCHANGED finished

\* `except Exception as e: ... continue` of the topic loop.
OnTopicException ==
    /\ pc' = "main"
    /\ raised' = raised \cup {topic}
    /\ NoLocals
    /\ UNCHANGED finished

\* run_complete_pipeline returns; the loop sleeps and goes on.
OnTopicReturn ==
    /\ pc' = "main"
    /\ finished' = finished \cup {topic}
    /\ NoLocals
    /\ UNCHANGED raised

\* for i, topic in enumerate(SEARCH_TOPICS, 1): run_complete_pipeline(...)
StartTopic ==
    /\ pc = "main"
    /\ topic < NumTopics
    /\ topic' = topic + 1
    /\ started' = Append(started, topic + 1)
    /\ pc' = "collect"
    /\ page_num' = 1
    /\ total_new_articles' = 0
    /\ process_limit' \in ProcessLimits
    /\ lastCollect' = [called |-> TRUE, before |-> Len(articles),
                       queried |-> 0, err |-> FALSE, results |-> 0]
    /\ lastExtract' = NoCall
    /\ lastUpload' = NoCall
    /\ UNCHANGED <<articles, documents, clock, work, i, processed_records,
                   raised, finished, apiVars, how>>

\* One iteration of `for page_num in range(1, max_pages + 1)`.
CollectPage ==
    /\ pc = "collect"
    /\ \E resp \in SearchResponses :
          LET items == GetSearxngNews(resp)
              done == InsertItems(articles, items, clock)
          IN  /\ lastCollect' = [lastCollect EXCEPT !.queried = page_num,
                                                      !.err = resp.err,
                                                      !.results = Len(items)]
              /\ IF NoMoreResults(items)
                 THEN /\ pc' = "process"
                      /\ UNCHANGED <<articles, clock, page_num,
                                     total_new_articles>>
                 ELSE /\ articles' = done.tbl
                      /\ total_new_articles' =
                            total_new_articles + done.new_items_count
                      /\ clock' = IF done.new_items_count > 0
                                  THEN clock + 1 ELSE clock
                      /\ page_num' = page_num + 1
                      /\ pc' = IF page_num = MaxPages
                               THEN "process" ELSE "collect"
    /\ UNCHANGED <<documents, topic, work, i, processed_records, process_limit,
                   started, raised, finished, apiVars, lastExtract,
                   lastUpload, how>>

\* sqlite3.connect is called outside every try: a database that cannot be
\* opened raises out of the collector.
CollectRaises ==
    /\ pc = "collect"
    /\ OnTopicException
    /\ UNCHANGED <<articles, documents, clock, topic, started, apiVars,
                   lastExtract, lastUpload, how>>

\* process_stored_articles up to its loop; an empty list returns [] and
\* run_complete_pipeline returns before the upload.
ProcessStart ==
    /\ pc = "process"
    /\ LET unprocessed == GetUnprocessedArticles(articles, process_limit)
       IN  IF unprocessed = <<>>
           THEN OnTopicReturn
           ELSE /\ pc' = "extract"
                /\ work' = unprocessed
                /\ i' = 1
                /\ lastCollect' = NoCall
                /\ UNCHANGED <<page_num, total_new_articles, processed_records,
                               process_limit, raised, finished>>
    /\ UNCHANGED <<articles, documents, clock, topic, started, apiVars,
                   lastExtract, lastUpload, how>>

HowOf(outcome) ==
    CASE outcome = "DONE_PRIMARY" -> "primary"
      [] outcome = "DONE_FALLBACK" -> "fallback"
      [] outcome = "ERROR" -> "error"
      [] outcome = "FAILED" -> "failed"
      [] outcome = "NO_URL" -> "no_url"

\* One iteration of `for i, article in enumerate(articles, 1)`; the log
\* line slices article['title'] before the extraction is tried.  After the
\* last article an empty processed_records ends the run without an upload.
ProcessArticle ==
    /\ pc = "extract"
    /\ LET article == work[i]
       IN  IF ~Sliceable(article.title)
           THEN /\ OnTopicException
                /\ UNCHANGED <<articles, lastExtract, how>>
           ELSE \E env \in ExtractionEnvs :
                  LET r == ExtractAndFormatEnhanced(articles, article, env)
                      records == AppendResult(processed_records, r.ret)
                  IN  /\ articles' = r.tbl
                      /\ lastExtract' = [called |-> TRUE, url |-> article.url,
                                         outcome |-> r.outcome, ret |-> r.ret,
                                         attempts |-> r.attempts,
                                         marks |-> r.marks,
                                         downloaded |-> r.downloaded,
                                         parse |-> r.parse, parsed |-> r.parsed]
                      /\ how' = [how EXCEPT ![article.url] =
                                    Append(@, [path |-> HowOf(r.outcome),
                                               run |-> topic])]
                      /\ IF i = Len(work) /\ records = <<>>
                         THEN OnTopicReturn
                         ELSE /\ processed_records' = records
                              /\ i' = IF i < Len(work) THEN i + 1 ELSE i
                              /\ pc' = IF i < Len(work) THEN "extract" ELSE "upload"
                              /\ UNCHANGED <<page_num, total_new_articles, work,
                                             process_limit, raised, finished,
                                             lastCollect>>
    /\ UNCHANGED <<documents, clock, topic, started, apiVars, lastUpload>>

\* The embed call that raises is the first or the last one, if any.
UploadEnvs(records) ==
    {UploadEnv("ok", 0, "ok"), UploadEnv("raise", 0, "ok"),
     UploadEnv("ok", 0, "raise"), UploadEnv("ok", 1, "ok"),
     UploadEnv("ok", Len(BatchChunks(records)), "ok")}

\* Phase 3 of run_complete_pipeline.
Upload ==
    /\ pc = "upload"
    /\ \E env \in UploadEnvs(processed_records) :
          LET r == ProcessAndUploadJsonRecords(documents, processed_records, env)
          IN  /\ documents' = r.docs
              /\ lastUpload' = [called |-> TRUE, outcome |-> r.outcome,
                                records |-> processed_records,
                                embedCalls |-> r.embedCalls,
                                chunks |-> Len(BatchChunks(processed_records)),
                                inserted |-> Len(documents') - Len(documents)]
    /\ lastExtract' = NoCall
    /\ OnTopicReturn
    /\ UNCHANGED <<articles, clock, topic, started, apiVars, how>>

\* The loop has run every topic; `stats = db.get_stats()` and the prints
\* that follow it end the script.
Finish ==
    /\ pc = "main"
    /\ topic = NumTopics
    /\ pc' = "done"
    /\ lastExtract' = NoCall
    /\ UNCHANGED <<articles, documents, clock, topic, page_num,
                   total_new_articles, work, i, processed_records,
                   process_limit, started, raised, finished, apiVars,
                   lastCollect, lastUpload, how>>

\* The final db.get_stats() is called outside every try and has none of
\* its own: a database that cannot be opened or read (it is locked by
\* another process, say) raises out of the script.
FinalStatsRaises ==
    /\ pc = "main"
    /\ topic = NumTopics
    /\ pc' = "crashed"
    /\ lastExtract' = NoCall
    /\ UNCHANGED <<articles, documents, clock, topic, page_num,
                   total_new_articles, work, i, processed_records,
                   process_limit, started, raised, finished, apiVars,
                   lastCollect, lastUpload, how>>

Next ==
    \/ StartTopic
    \/ CollectPage
    \/ CollectRaises
    \/ ProcessStart
    \/ ProcessArticle
    \/ Upload
    \/ Finish
    \/ FinalStatsRaises

Spec == Init /\ [][Next]_vars

(***************************************************************************)
(* The store on its own: a client calls insert_searxng_result,             *)
(* mark_as_processed, get_unprocessed_articles and get_stats directly, in  *)
(* any order and with any arguments.                                       *)
(***************************************************************************)
StoreItems == {ResA, ResA2, ResB, ResNoUrl, ResEmptyUrl, ResNullUrl}
StoreUrls == {Url1, Url2, Url3}
StorageFaults == {"none", "execute", "connect"}
ListLimits == {None, PyInt(0), PyInt(1), PyInt(2)}
MarkArgs ==
    {[success |-> TRUE, extracted_content |-> ParsedLong,
      extracted_metadata |-> JsonDumps("primary")],
     [success |-> FALSE, extracted_content |-> None,
      extracted_metadata |-> JsonDumps("fallback")],
     [success |-> FALSE, extracted_content |-> None,
      extracted_metadata |-> None]}

pipelineVars == <<documents, pc, topic, page_num, total_new_articles, work, i,
                  processed_records, process_limit, started, raised, finished,
                  lastCollect, lastExtract, lastUpload, how, collectors, pipe>>

\* db.insert_searxng_result(item); rows stored in the same second share
\* their created_at.
StoreInsert ==
    \E item \in StoreItems, tick \in {0, 1} :
       LET r == InsertSearxngResult(articles, item, clock)
       IN  /\ articles' = r.tbl
           /\ clock' = IF r.ret THEN clock + tick ELSE clock
           /\ lastInsert' = [called |-> TRUE, item |-> item, ret |-> r.ret,
                             before |-> articles]
           /\ lastMark' = NoCall
           /\ lastList' = NoCall
           /\ lastStats' = NoCall
           /\ UNCHANGED pipelineVars

\* db.mark_as_processed(url, success, extracted_content, extracted_metadata)
StoreMark ==
    \E url \in StoreUrls, args \in MarkArgs, fault \in StorageFaults :
       LET r == MarkAsProcessedCall(articles, url, args, fault)
       IN  /\ articles' = r.tbl
           /\ lastMark' = [called |-> TRUE, url |-> url, args |-> args,
                           before |-> articles, fault |-> fault,
                           raised |-> r.raised]
           /\ lastInsert' = NoCall
           /\ lastList' = NoCall
           /\ lastStats' = NoCall
           /\ UNCHANGED <<clock, pipelineVars>>

\* db.get_unprocessed_articles(limit)
StoreList ==
    \E limit \in ListLimits :
       /\ lastList' = [called |-> TRUE, limit |-> limit,
                       ret |-> GetUnprocessedArticles(articles, limit)]
       /\ lastInsert' = NoCall
       /\ lastMark' = NoCall
       /\ lastStats' = NoCall
       /\ UNCHANGED <<articles, clock, pipelineVars>>

\* db.get_stats()
StoreStats ==
    /\ lastStats' = [called |-> TRUE, ret |-> GetStats(articles)]
    /\ lastInsert' = NoCall
    /\ lastMark' = NoCall
    /\ lastList' = NoCall
    /\ UNCHANGED <<articles, clock, pipelineVars>>

StoreNext ==
    \/ StoreInsert
    \/ StoreMark
    \/ StoreList
    \/ StoreStats

SpecStore == Init /\ [][StoreNext]_vars

(***************************************************************************)
(* The batcher on its own: a client calls process_and_upload_json_records  *)
(* with one or two records of any body on an empty documents table.        *)
(***************************************************************************)
BatchBodies ==
    {Empty, None, Str("b49", 49), Str("b50", 50), Padded("p52", 52, 1, 2),
     Padded("p60", 60, 2, 3), Str("b500", 500), Str("b900", 900),
     Str("b901", 901), Paragraphs("q500", <<249, 249>>),
     Paragraphs("q511", <<490, 19>>), Paragraphs("q512", <<490, 20>>),
     Paragraphs("q513", <<490, 21>>), Paragraphs("q900", <<450, 448>>)}
PairBodies ==
    {Str("b49", 49), Str("b500", 500), Str("b900", 900),
     Paragraphs("q512", <<490, 20>>)}
BatchRecord(url, body) ==
    Output(url, body, [url |-> url, content_source |-> "trafilatura"])
BatchInputs ==
    {<<BatchRecord(Url1, b)>> : b \in BatchBodies}
    \cup {<<BatchRecord(Url1, b[1]), BatchRecord(Url2, b[2])>> :
             b \in PairBodies \X PairBodies}

\* The client hands over its records; Upload is the call.
BatchSubmit ==
    /\ pc = "main"
    /\ documents = <<>>
    /\ processed_records' \in BatchInputs
    /\ pc' = "upload"
    /\ UNCHANGED <<articles, documents, clock, topic, page_num,
                   total_new_articles, work, i, process_limit, started, raised,
                   finished, apiVars, lastCollect, lastExtract, lastUpload, how>>

BatchNext ==
    \/ BatchSubmit
    \/ Upload

SpecBatch == Init /\ [][BatchNext]_vars

(***************************************************************************)
(* collect_searxng_articles on its own, once per topic.  Every search call *)
(* returns (the request has a timeout), so the page loop is scheduled      *)
(* weakly fairly.                                                          *)
(***************************************************************************)
\* `return total_new_articles`
CollectReturn ==
    /\ pc = "process"
    /\ OnTopicReturn
    /\ UNCHANGED <<articles, documents, clock, topic, started, apiVars,
                   lastExtract, lastUpload, how>>

CollectNext ==
    \/ StartTopic
    \/ CollectPage
    \/ CollectRaises
    \/ CollectReturn

SpecCollect == Init /\ [][CollectNext]_vars /\ WF_vars(CollectPage)

(***************************************************************************)
(* extract_and_format_enhanced on its own: two results are stored, then    *)
(* each row is extracted once against any page.                            *)
(***************************************************************************)
ExtractItems == {ResA, ResB, ResC, ResD, ResE}

ExtractSeed ==
    /\ articles = <<>>
    /\ \E a, b \in ExtractItems :
          /\ a # b
          /\ articles' = InsertItems(<<>>, <<a, b>>, clock).tbl
    /\ UNCHANGED <<documents, clock, loopVars, apiVars, lastCollect,
                   lastExtract, lastUpload, how>>

ExtractCall ==
    \E j \in 1..Len(articles), env \in ExtractEnvs :
       LET article == articles[j]
           r == ExtractAndFormatEnhanced(articles, article, env)
       IN  /\ article.processed = 0
           /\ how[article.url] = <<>>
           /\ articles' = r.tbl
           /\ lastExtract' = [called |-> TRUE, url |-> article.url,
                              outcome |-> r.outcome, ret |-> r.ret,
                              attempts |-> r.attempts, marks |-> r.marks,
                              downloaded |-> r.downloaded, parse |-> r.parse,
                              parsed |-> r.parsed, env |-> env,
                              article |-> article]
           /\ how' = [how EXCEPT ![article.url] =
                         Append(@, [path |-> HowOf(r.outcome), run |-> 0])]
           /\ UNCHANGED <<documents, clock, loopVars, apiVars, lastCollect,
                          lastUpload>>

ExtractNext ==
    \/ ExtractSeed
    \/ ExtractCall

SpecExtract == Init /\ [][ExtractNext]_vars

(***************************************************************************)
(* Two collectors on one database file.  insert_searxng_result is three    *)
(* steps for the scheduler: connect, execute (the INSERT OR IGNORE, which  *)
(* takes the write lock of the file and decides on the unique index        *)
(* whether the row is new) and commit (which publishes the row and         *)
(* releases the lock).                                                     *)
(***************************************************************************)
CollectorItems == {ResA, ResA2, ResB}

\* Faulty variant: the INSERT does not wait for the writer before it.
WriteLockIgnored(lock, p) == TRUE

\* The file's write lock is free for p: no other connection is between
\* its INSERT and its commit.
WriteLockFree(lock, p) == lock \in {0, p}

otherVars == <<documents, clock, loopVars, lastInsert, lastMark, lastList, lastStats, lastCollect, lastExtract, lastUpload, how, pipe>>

\* conn = sqlite3.connect(db_path) of a call for item.
CollectorConnect(p) ==
    /\ collectors.proc[p].pc = "idle"
    /\ \E item \in CollectorItems :
          collectors' =
             [collectors EXCEPT !.proc[p] =
                 [pc |-> "connected", item |-> item,
                  fresh |-> ~HasUrl(articles, Get(item, "url", Empty))]]
    /\ UNCHANGED <<articles, otherVars>>

\* cursor.execute(INSERT OR IGNORE ...): with the lock, the statement
\* sees every committed row and inserts only a new url.
CollectorExecute(p) ==
    /\ collectors.proc[p].pc = "connected"
    /\ WriteLockFree(collectors.lock, p)
    /\ LET me == collectors.proc[p]
           r == InsertSearxngResult(articles, me.item, clock)
       IN  collectors' =
              [collectors EXCEPT
                  !.lock = p,
                  !.proc[p] = [pc |-> "executed", item |-> me.item,
                               fresh |-> me.fresh, rowcount |-> IF r.ret THEN 1 ELSE 0,
                               row |-> IF r.ret THEN Last(r.tbl) ELSE None]]
    /\ UNCHANGED <<articles, otherVars>>

\* The writer before it keeps the lock longer than the busy timeout: the
\* INSERT raises `database is locked`, the except branch returns False.
CollectorBusy(p) ==
    /\ collectors.proc[p].pc = "connected"
    /\ ~WriteLockFree(collectors.lock, p)
    /\ LET me == collectors.proc[p]
       IN  collectors' =
              [collectors EXCEPT
                  !.proc[p] = [pc |-> "done", item |-> me.item,
                               fresh |-> me.fresh, ret |-> FALSE]]
    /\ UNCHANGED <<articles, otherVars>>

\* conn.commit(); return cursor.rowcount > 0
CollectorCommit(p) ==
    /\ collectors.proc[p].pc = "executed"
    /\ LET me == collectors.proc[p]
       IN  /\ articles' = IF me.rowcount > 0
                          THEN Append(articles, me.row) ELSE articles
           /\ collectors' =
                 [collectors EXCEPT
                     !.lock = 0,
                     !.proc[p] = [pc |-> "done", item |-> me.item,
                                  fresh |-> me.fresh, ret |-> me.rowcount > 0]]
    /\ UNCHANGED otherVars

\* The caller takes the result; the next call of p may begin.
CollectorReturn(p) ==
    /\ collectors.proc[p].pc = "done"
    /\ collectors' = [collectors EXCEPT !.proc[p] = Idle]
    /\ UNCHANGED <<articles, otherVars>>

CollectorsNext ==
    \/ \E p \in Procs : CollectorConnect(p)
    \/ \E p \in Procs : CollectorExecute(p)
    \/ \E p \in Procs : CollectorBusy(p)
    \/ \E p \in Procs : CollectorCommit(p)
    \/ \E p \in Procs : CollectorReturn(p)

SpecCollectors == Init /\ [][CollectorsNext]_vars

(***************************************************************************)
(* The chat-proxy pipe (Pipe.pipe): one call, from the pre-flight checks   *)
(* over the POST to the workflow and the polls of its execution to the     *)
(* return.  The call has no files.                                         *)
(***************************************************************************)
Text(text, detail) == [text |-> text, detail |-> detail]
Message(role, content) == [role |-> role, content |-> content]
Question == Message("user", Text("question", ""))
Bodies == {<<>>, <<Question>>, <<Message("assistant", Text("answer", "")), Question>>}

\* Exceptions raised inside the try of pipe.
RequestException(e) == [class |-> "RequestException", e |-> e]
Exception(e) == [class |-> "Exception", e |-> e]
KeyError(e) == [class |-> "KeyError", e |-> e]
\* The two except branches build error_message from the exception.
ErrorMessage(exc) ==
    IF exc.class = "RequestException"
    THEN Text("Network Error: Could not connect to N8N. Please check the URL. Details: ", exc.e)
    ELSE Text("An unexpected error occurred: ", exc.e)

\* emit_status: the event goes to the emitter, if there is one, when the
\* emit interval has passed since the last event (due) or the status is
\* final.
EmitStatus(events, emitter, level, message, done, due) ==
    IF emitter /\ (due \/ done)
    THEN Append(events, [type |-> "status", status |-> IF done THEN "complete" ELSE "in_progress", level |-> level, description |-> message, done |-> done])
    ELSE events

WorkflowComplete == Text("Workflow complete.", "")

\* A pre-flight check fails: the error is the return value, nothing is
\* emitted or appended.
PipeRefused(body, content) ==
    [pc |-> "returned", emitter |-> FALSE, max_polls |-> 0, before |-> body,
     messages |-> body, events |-> <<>>, attempt |-> 0, exc |-> None,
     n8n_response |-> Missing, ret |-> Message("assistant", Text(content, ""))]

\* `return n8n_response`: the local is bound at line 337 only; read
\* unbound it raises UnboundLocalError out of pipe.
PipeReturn(p) == IF p.n8n_response = Missing THEN "raised" ELSE "returned"

\* An except branch and the lines after the try: error status, error
\* message appended, final status, return n8n_response.
PipeFailed(p, exc, due1, due2) ==
    LET error_message == ErrorMessage(exc)
        events == EmitStatus(p.events, p.emitter, "error", error_message, TRUE, due1)
    IN  [p EXCEPT !.pc = PipeReturn(p),
                  !.exc = exc,
                  !.ret = IF p.n8n_response = Missing THEN None ELSE p.n8n_response,
                  !.messages = Append(p.messages, Message("assistant", error_message)),
                  !.events = EmitStatus(events, p.emitter, "info", WorkflowComplete, TRUE, due2)]

\* The try ends without exception: the answer is appended.
PipeAnswered(p, n8n_response, due2) ==
    [p EXCEPT !.pc = "returned",
              !.ret = n8n_response,
              !.messages = Append(p.messages, Message("assistant", n8n_response)),
              !.events = EmitStatus(p.events, p.emitter, "info", WorkflowComplete, TRUE, due2)]

\* `if not final_execution_data: raise Exception(timeout)` after the loop.
PipeTimedOut(p, due1, due2) ==
    PipeFailed(p, Exception("Workflow did not complete in the allotted time (timeout)."), due1, due2)

restVars == <<articles, documents, clock, loopVars, lastInsert, lastMark, lastList, lastStats, lastCollect, lastExtract, lastUpload, how, collectors>>

\* pipe(body, ...) up to the try.
PipeCall ==
    /\ pipe.pc = "idle"
    /\ \E n8n_url, n8n_bearer_token, emitter \in BOOLEAN, body \in Bodies, max_polls \in 0..MaxPolls :
          pipe' =
             IF ~n8n_url
             THEN PipeRefused(body, "Error: N8N URL is not configured in the pipe's valves.")
             ELSE IF ~n8n_bearer_token
             THEN PipeRefused(body, "Error: N8N Bearer Token is not configured.")
             ELSE IF body = <<>>
             THEN PipeRefused(body, "Error: No messages found in the request.")
             ELSE [pc |-> "post", emitter |-> emitter, max_polls |-> max_polls,
                   before |-> body, messages |-> body, events |-> <<>>,
                   attempt |-> 0, exc |-> None, n8n_response |-> Missing,
                   ret |-> None]
    /\ UNCHANGED restVars

PostResponses == {"connection_error", "http_error", "no_execution_id", "accepted"}

\* requests.post, raise_for_status, executionId; with max_polls = 0 the
\* poll loop has no iteration.
PipePost ==
    /\ pipe.pc = "post"
    /\ \E resp \in PostResponses, due1, due2 \in BOOLEAN :
          pipe' =
             CASE resp = "connection_error" ->
                    PipeFailed(pipe, RequestException("ConnectionError"), due1, due2)
               [] resp = "http_error" ->
                    PipeFailed(pipe, RequestException("HTTPError"), due1, due2)
               [] resp = "no_execution_id" ->
                    PipeFailed(pipe, Exception("Did not get Execution ID"), due1, due2)
               [] resp = "accepted" ->
                    IF pipe.max_polls = 0
                    THEN PipeTimedOut(pipe, due1, due2)
                    ELSE [pipe EXCEPT !.pc = "poll"]
    /\ UNCHANGED restVars

PollResponses == {"connection_error", "http_error", "running", "finished_error", "finished_success"}

\* One iteration of `for attempt in range(max_polls)` and, when it is the
\* last one, the lines after the loop.  output is what
\* _extract_final_output finds in a successful execution.
PipePoll ==
    /\ pipe.pc = "poll"
    /\ \E resp \in PollResponses, due0, due1, due2 \in BOOLEAN, output \in {None, Text("answer", "")} :
          LET p == [pipe EXCEPT
                       !.attempt = pipe.attempt + 1,
                       !.n8n_response = IF resp = "finished_success" THEN output ELSE Missing,
                       !.events = EmitStatus(pipe.events, pipe.emitter, "info", Text("Processing (Part)", pipe.attempt + 1), FALSE, due0)]
          IN  pipe' =
                 CASE resp = "connection_error" ->
                        PipeFailed(p, RequestException("ConnectionError"), due1, due2)
                   [] resp = "http_error" ->
                        PipeFailed(p, RequestException("HTTPError"), due1, due2)
                   [] resp = "finished_error" ->
                        PipeFailed(p, Exception("Workflow finished with unsuccessful status: 'error'"), due1, due2)
                   [] resp = "finished_success" ->
                        IF output = None
                        THEN PipeFailed(p, KeyError("Response field 'output' not found in N8N response."), due1, due2)
                        ELSE PipeAnswered(p, output, due2)
                   [] resp = "running" ->
                        IF p.attempt = p.max_polls
                        THEN PipeTimedOut(p, due1, due2)
                        ELSE p
    /\ UNCHANGED restVars

PipeNext ==
    \/ PipeCall
    \/ PipePost
    \/ PipePoll

SpecPipe == Init /\ [][PipeNext]_vars

(***************************************************************************)
(* Properties.                                                             *)
(***************************************************************************)
RowOf(tbl, url) == tbl[CHOOSE j \in 1..Len(tbl) : tbl[j].url = url]
Written(h) == h # <<>> /\ Last(h).path \in {"primary", "fallback", "error"}
RowsOf(id) == SelectSeq(documents, LAMBDA d : d.metadata.source_id = id)

\* The chunks of a batch that pass both length filters, each with the
\* record it was cut from, in record order and then splitter order.
RECURSIVE SurvivingChunks(_)
SurvivingChunks(records) ==
    IF records = <<>>
    THEN <<>>
    ELSE LET r == records[1]
             body == r.page_content
             kept == IF ~Truthy(body) \/ PyLen(Strip(body)) < MinRecordLen
                     THEN <<>>
                     ELSE SelectSeq(SplitText(body),
                                    LAMBDA c : PyLen(Strip(c)) > MinChunkLen)
         IN  [k \in 1..Len(kept) |-> [text |-> kept[k], record |-> r]]
             \o SurvivingChunks(Tail(records))

\* C1: insert_searxng_result is insert-if-new per url.  A result whose url
\* is not stored appends exactly one row and returns true; a result whose
\* url is stored returns false and leaves every row as it was (nothing is
\* merged); no two rows ever share a url.  Checked under SpecStore.
C1_InsertIfNewIdempotent ==
    /\ \A a, b \in 1..Len(articles) :
          articles[a].url = articles[b].url => a = b
    /\ lastInsert.called =>
          LET old == lastInsert.before
              url == Get(lastInsert.item, "url", Empty)
          IN  Truthy(url) =>
                IF HasUrl(old, url)
                THEN lastInsert.ret = FALSE /\ articles = old
                ELSE /\ lastInsert.ret = TRUE
                     /\ Len(articles) = Len(old) + 1
                     /\ SubSeq(articles, 1, Len(old)) = old
                     /\ articles[Len(articles)].url = url
                     /\ articles[Len(articles)].processed = 0

\* C1 witness: the url of ResA is rediscovered with other field values
\* after its row was processed; the call returned false.
C1_Witness ==
    /\ lastInsert.called
    /\ lastInsert.item = ResA2
    /\ lastInsert.ret = FALSE
    /\ HasUrl(articles, Url1)
    /\ RowOf(articles, Url1).title = ResA.title
    /\ RowOf(articles, Url1).processed = 1

\* C2: once a row has processed = 1, no step of any pipeline run changes
\* its processed, trafilatura_success or extracted_content, and no further
\* extraction is tried on it.
C2_ProcessedMonotone ==
    [][\A j \in 1..Len(articles) :
         articles[j].processed = 1 =>
           /\ Len(articles') >= j
           /\ articles'[j].url = articles[j].url
           /\ articles'[j].processed = 1
           /\ articles'[j].trafilatura_success = articles[j].trafilatura_success
           /\ articles'[j].extracted_content = articles[j].extracted_content
           /\ how'[articles[j].url] = how[articles[j].url]]_vars

\* C2 witness: a later run is extracting while a row processed in an
\* earlier run is in the store.
C2_Witness ==
    /\ lastExtract.called
    /\ \E u \in Urls : Written(how[u]) /\ Last(how[u]).run < topic

\* C3 (as claimed): mark_as_processed on a row that is already processed
\* leaves its trafilatura_success, extracted_content and extracted_metadata
\* unchanged, and a call changes no row of another url.  Checked under
\* SpecStore.
C3_MarkProcessedIdempotent ==
    lastMark.called =>
      \A j \in 1..Len(lastMark.before) :
         LET old == lastMark.before[j]
         IN  /\ old.url # lastMark.url => articles[j] = old
             /\ (old.url = lastMark.url /\ old.processed = 1) =>
                   /\ articles[j].trafilatura_success = old.trafilatura_success
                   /\ articles[j].extracted_content = old.extracted_content
                   /\ articles[j].extracted_metadata = old.extracted_metadata

\* C4 (as claimed): when nothing was downloaded for an article whose
\* snippet or title is non-empty, the extraction returns a record whose id
\* is the url and whose body is the snippet, or else the title, and the
\* row then has processed = 1 and trafilatura_success = 0.
C4_FallbackCorrectness ==
    (lastExtract.called /\ ~lastExtract.downloaded) =>
      LET row == RowOf(articles, lastExtract.url)
      IN  (Truthy(row.content) \/ Truthy(row.title)) =>
            /\ Len(lastExtract.ret) = 1
            /\ lastExtract.ret[1].id = row.url
            /\ lastExtract.ret[1].page_content =
                  (IF Truthy(row.content) THEN row.content ELSE row.title)
            /\ row.processed = 1
            /\ row.trafilatura_success = 0

\* C5: when the extraction got no content (nothing downloaded, or the parse
\* returned nothing) and the row's snippet and title are both empty, it
\* returns None without calling mark_as_processed: the row keeps
\* processed = 0 and get_unprocessed_articles() still returns it.
C5_EmptyFallbackLeftUnprocessed ==
    (lastExtract.called /\ ~lastExtract.parsed /\ lastExtract.parse # "raise") =>
      LET row == RowOf(articles, lastExtract.url)
          unprocessed == GetUnprocessedArticles(articles, None)
      IN  (~Truthy(row.content) /\ ~Truthy(row.title)) =>
            /\ lastExtract.ret = <<>>
            /\ lastExtract.marks = 0
            /\ row.processed = 0
            /\ \E j \in 1..Len(unprocessed) : unprocessed[j].url = row.url

\* C5 witness: the article without snippet and title was tried in two
\* runs, the second time after a download whose parse returned nothing.
C5_Witness ==
    /\ lastExtract.called
    /\ lastExtract.outcome = "FAILED"
    /\ lastExtract.downloaded
    /\ Len(how[lastExtract.url]) = 2
    /\ how[lastExtract.url][1].run < how[lastExtract.url][2].run

\* C6: an extraction that ends in DONE_PRIMARY or DONE_FALLBACK has called
\* mark_as_processed once and returns a record for the url; the stored
\* trafilatura_success is 1 iff the parse produced content (DONE_PRIMARY)
\* and 0 when the snippet or title was used.
C6_DoneMarksOnceWithParseFlag ==
    (lastExtract.called
     /\ lastExtract.outcome \in {"DONE_PRIMARY", "DONE_FALLBACK"}) =>
      LET row == RowOf(articles, lastExtract.url)
      IN  /\ lastExtract.marks = 1
          /\ Len(lastExtract.ret) = 1
          /\ lastExtract.ret[1].id = lastExtract.url
          /\ row.processed = 1
          /\ (row.trafilatura_success = 1) = lastExtract.parsed
          /\ (lastExtract.outcome = "DONE_PRIMARY") = lastExtract.parsed
          /\ (lastExtract.outcome = "DONE_FALLBACK") =>
                lastExtract.ret[1].page_content \in {row.content, row.title}

\* C6 witness: a page was downloaded, its parse returned nothing and the
\* extraction ended with the fallback body.
C6_Witness ==
    /\ lastExtract.called
    /\ lastExtract.outcome = "DONE_FALLBACK"
    /\ lastExtract.downloaded
    /\ RowOf(articles, lastExtract.url).trafilatura_success = 0

\* C7: a row's extracted_content is set only if the row has processed = 1
\* and trafilatura_success = 1; an unprocessed row has none.
C7_ExtractedContentOnlyOnSuccess ==
    \A j \in 1..Len(articles) :
       articles[j].extracted_content # None =>
         articles[j].processed = 1 /\ articles[j].trafilatura_success = 1

\* C7 witness: one row holds extracted content, another was processed
\* through the fallback and holds none.
C7_Witness ==
    /\ \E j \in 1..Len(articles) : articles[j].extracted_content # None
    /\ \E j \in 1..Len(articles) :
          /\ Written(how[articles[j].url])
          /\ Last(how[articles[j].url]).path = "fallback"
          /\ articles[j].extracted_content = None

\* C8 (as claimed): a row's extracted_metadata is set only if its
\* trafilatura_success is 1.
C8_MetadataOnlyOnSuccess ==
    \A j \in 1..Len(articles) :
       articles[j].extracted_metadata # None =>
         articles[j].trafilatura_success = 1

\* C8 (amended): a row's extracted_metadata is set exactly when its
\* extraction ended in DONE_PRIMARY or DONE_FALLBACK, hence only on a
\* processed row; a row processed through the fallback holds metadata with
\* trafilatura_success = 0, a row processed through the except branch and
\* an unprocessed row hold none.
C8_MetadataIffExtractionDone ==
    \A j \in 1..Len(articles) :
       LET row == articles[j]
           h == how[row.url]
           done == h # <<>> /\ Last(h).path \in {"primary", "fallback"}
       IN  /\ (row.extracted_metadata # None) = done
           /\ done => row.processed = 1
           /\ (done /\ Last(h).path = "fallback") => row.trafilatura_success = 0
           /\ (done /\ Last(h).path = "primary") => row.trafilatura_success = 1

\* C8 witness: a row processed through the fallback holds metadata while a
\* row processed through the except branch holds none.
C8_Witness ==
    /\ \E j \in 1..Len(articles) :
          /\ articles[j].extracted_metadata # None
          /\ articles[j].trafilatura_success = 0
    /\ \E j \in 1..Len(articles) :
          /\ Written(how[articles[j].url])
          /\ Last(how[articles[j].url]).path = "error"
          /\ articles[j].extracted_metadata = None

\* C9: the topic loop starts every topic's run once, in list order; a run
\* that raises is caught and the loop goes on, so the loop ends only after
\* the last topic and every topic either returned or was caught.
C9_TopicIsolation ==
    /\ started = [t \in 1..topic |-> t]
    /\ raised \cap finished = {}
    /\ pc \in {"main", "done"} => raised \cup finished = 1..topic
    /\ pc = "done" => topic = NumTopics

\* C9 witness: the first topic's run raised and a later topic ran through
\* its upload.
C9_Witness ==
    /\ pc = "done"
    /\ 1 \in raised
    /\ NumTopics \in finished
    /\ lastUpload.called
    /\ lastUpload.outcome = "uploaded"

\* C10: when an embedding call of a batch fails, the upload inserts no row
\* (none of the chunks embedded before the failure), makes no further embed
\* call and returns to run_complete_pipeline, which returns.
C10_BatchAbortAtomicity ==
    (lastUpload.called /\ lastUpload.outcome = "embed_failed") =>
      /\ lastUpload.inserted = 0
      /\ lastUpload.embedCalls <= lastUpload.chunks
      /\ topic \in finished
      /\ topic \notin raised

\* C10 witness: the failing embed call came after another chunk of the
\* batch had been embedded.
C10_Witness ==
    /\ lastUpload.called
    /\ lastUpload.outcome = "embed_failed"
    /\ lastUpload.embedCalls > 1

\* C11 (as claimed): no exception leaves the batch script; whatever fails,
\* the script ends normally.
C11_NoExceptionPropagates ==
    pc # "crashed"

\* C12: insert_searxng_result on a result whose url is missing, empty or
\* null returns false and leaves the table exactly as it was.  Checked under
\* SpecStore.
C12_MalformedRejected ==
    (lastInsert.called /\ ~Truthy(Get(lastInsert.item, "url", Empty))) =>
      /\ lastInsert.ret = FALSE
      /\ articles = lastInsert.before

\* C12 witness: a result with "url": null was offered to a store that holds
\* rows.
C12_Witness ==
    /\ lastInsert.called
    /\ lastInsert.item = ResNullUrl
    /\ lastInsert.ret = FALSE
    /\ Len(articles) >= 2

\* C13 (as claimed): get_unprocessed_articles(limit) returns rows of the
\* table with processed = 0, each once, in non-decreasing created_at order;
\* without a limit all of them, with a limit n the n oldest (all of them
\* if there are fewer than n).  Checked under SpecStore.
C13_ListUnprocessedOrderedCapped ==
    lastList.called =>
      LET ret == lastList.ret
          limit == lastList.limit
          unprocessed == {j \in 1..Len(articles) : articles[j].processed = 0}
          returned == {j \in unprocessed :
                         \E a \in 1..Len(ret) : ret[a] = articles[j]}
      IN  /\ \A a \in 1..Len(ret) : \E j \in unprocessed : ret[a] = articles[j]
          /\ \A a, b \in 1..Len(ret) :
                a < b => /\ ret[a].created_at <= ret[b].created_at
                         /\ ret[a].url # ret[b].url
          /\ limit = None => Len(ret) = Cardinality(unprocessed)
          /\ limit # None =>
                /\ Len(ret) = Min(limit.v, Cardinality(unprocessed))
                /\ \A j \in unprocessed \ returned : \A a \in 1..Len(ret) :
                      ret[a].created_at <= articles[j].created_at

\* C14 (as claimed): when the database fails during mark_as_processed, the
\* call returns normally and the table is left as it was.  Checked under
\* SpecStore.
C14_MarkNeverThrows ==
    (lastMark.called /\ lastMark.fault # "none") =>
      /\ ~lastMark.raised
      /\ articles = lastMark.before

\* C15: get_stats describes the table it is called on: total is the number
\* of rows, processed the number with processed = 1, unprocessed their
\* difference, trafilatura_successful the number with trafilatura_success
\* = 1 and trafilatura_failed the number of processed rows without it; no
\* count is negative, and no row has trafilatura_success = 1 while
\* processed = 0.  Checked under SpecStore.
C15_StatsConsistent ==
    LET rows == 1..Len(articles)
        flagged == {j \in rows : articles[j].trafilatura_success = 1}
        done == {j \in rows : articles[j].processed = 1}
    IN  /\ flagged \subseteq done
        /\ lastStats.called =>
              LET st == lastStats.ret
              IN  /\ st.total = Len(articles)
                  /\ st.processed = Cardinality(done)
                  /\ st.unprocessed = Cardinality(rows \ done)
                  /\ st.unprocessed = st.total - st.processed
                  /\ st.trafilatura_successful = Cardinality(flagged)
                  /\ st.trafilatura_failed = Cardinality(done \ flagged)
                  /\ st.trafilatura_failed =
                        st.processed - st.trafilatura_successful
                  /\ \A c \in {st.total, st.processed, st.unprocessed,
                               st.trafilatura_successful,
                               st.trafilatura_failed} : c >= 0

\* C15 witness: stats of a table with a row processed with success and a
\* row processed without.
C15_Witness ==
    /\ lastStats.called
    /\ lastStats.ret.processed = 2
    /\ lastStats.ret.trafilatura_successful = 1
    /\ lastStats.ret.trafilatura_failed = 1

\* C16: while collect_searxng_articles runs and when it returns, its
\* total_new_articles is the number of rows the table gained since the
\* call; a result whose url is stored, missing or empty adds nothing to
\* either.
C16_CollectCountsNewRows ==
    lastCollect.called =>
      /\ total_new_articles >= 0
      /\ Len(articles) = lastCollect.before + total_new_articles

\* C16 witness: a collect over two pages with five results, one of a stored
\* url and two without url, returned 2 on a store that held two rows.
C16_Witness ==
    /\ lastCollect.called
    /\ pc = "process"
    /\ lastCollect.queried >= 2
    /\ lastCollect.before = 2
    /\ total_new_articles = 2
    /\ HasUrl(articles, Url3)
    /\ HasUrl(articles, Url4)

\* C17: when the request of a page fails, the collector has not raised, the
\* failing page is the last one it queried, it added no row, and the
\* collector returns the count of the pages before.
C17_TransportErrorStopsCollect ==
    (lastCollect.called /\ lastCollect.err) =>
      /\ pc = "process"
      /\ topic \notin raised
      /\ lastCollect.queried = page_num
      /\ total_new_articles = Len(articles) - lastCollect.before

\* C17 witness: the second page failed after the first one had stored rows.
C17_Witness ==
    /\ lastCollect.called
    /\ lastCollect.err
    /\ lastCollect.queried = 2
    /\ total_new_articles > 0

\* C18 (as claimed): a record whose body is empty or has fewer than 50
\* characters gives no chunk, no embed call and no row; a record whose
\* body has 50 characters or more is split into chunks.  Checked under
\* SpecBatch.
C18_ShortRecordsDiscarded ==
    lastUpload.called =>
      LET recs == lastUpload.records
          short(r) == ~Truthy(r.page_content)
                      \/ PyLen(r.page_content) < MinRecordLen
      IN  /\ \A a \in 1..Len(recs) : short(recs[a]) => RowsOf(recs[a].id) = <<>>
          /\ (\A a \in 1..Len(recs) : short(recs[a])) =>
                /\ lastUpload.chunks = 0
                /\ lastUpload.embedCalls = 0
                /\ lastUpload.inserted = 0
          /\ \A a \in 1..Len(recs) :
                ~short(recs[a]) =>
                   /\ lastUpload.chunks >= 1
                   /\ lastUpload.outcome = "uploaded" =>
                         RowsOf(recs[a].id) # <<>>

\* C18 (amended): the 50 characters are counted on the stripped body.  A
\* record whose body is empty, None or has a stripped length under 50 (a
\* body of 49 characters, or of 52 of which 3 are padding) gives no chunk,
\* no embed call and no row; a record whose stripped body has 50 characters
\* or more is split into chunks.  Checked under SpecBatch.
C18_TrimmedShortRecordsDiscarded ==
    lastUpload.called =>
      LET recs == lastUpload.records
          short(r) == ~Truthy(r.page_content)
                      \/ PyLen(Strip(r.page_content)) < MinRecordLen
      IN  /\ \A a \in 1..Len(recs) : short(recs[a]) => RowsOf(recs[a].id) = <<>>
          /\ (\A a \in 1..Len(recs) : short(recs[a])) =>
                /\ lastUpload.chunks = 0
                /\ lastUpload.embedCalls = 0
                /\ lastUpload.inserted = 0
          /\ \A a \in 1..Len(recs) :
                ~short(recs[a]) =>
                   /\ lastUpload.chunks >= 1
                   /\ lastUpload.outcome = "uploaded" =>
                         RowsOf(recs[a].id) # <<>>

\* C18 witness: a batch of a 49-character body and a 900-character body
\* was uploaded; only the second gave rows.
C18_Witness ==
    /\ lastUpload.called
    /\ lastUpload.outcome = "uploaded"
    /\ Len(lastUpload.records) = 2
    /\ lastUpload.records[1].page_content = Str("b49", 49)
    /\ RowsOf(lastUpload.records[2].id) = documents
    /\ documents # <<>>

\* C19 (as claimed): of the chunks the splitter returns for a record, the
\* rows inserted are exactly those whose stripped length is 20 or more, in
\* the splitter's order.  Checked under SpecBatch.
C19_ChunkKeptIffTrimmed20 ==
    (lastUpload.called /\ lastUpload.outcome = "uploaded") =>
      \A a \in 1..Len(lastUpload.records) :
         LET r == lastUpload.records[a]
             body == r.page_content
             rows == RowsOf(r.id)
         IN  (Truthy(body) /\ PyLen(Strip(body)) >= MinRecordLen) =>
                [j \in 1..Len(rows) |-> rows[j].content] =
                   SelectSeq(SplitText(body),
                             LAMBDA chunk : PyLen(Strip(chunk)) >= MinChunkLen)

\* C20 (as claimed): a body of 500 characters is inserted as one chunk; a
\* body of 900 characters as two chunks of at most 500 characters, the
\* first from the start of the body, the second starting at most 400
\* characters in, inside the first, and ending with the body.  Checked
\* under SpecBatch.
C20_ChunkCounts500And900 ==
    (lastUpload.called /\ lastUpload.outcome = "uploaded") =>
      \A a \in 1..Len(lastUpload.records) :
         LET body == lastUpload.records[a].page_content
             rows == RowsOf(lastUpload.records[a].id)
         IN  /\ PyLen(body) = 500 => Len(rows) = 1
             /\ PyLen(body) = 900 =>
                   /\ Len(rows) = 2
                   /\ rows[1].content.n <= CHUNK_SIZE
                   /\ rows[2].content.n <= CHUNK_SIZE
                   /\ rows[1].content.s = body.s
                   /\ rows[2].content.s <= body.s + CHUNK_SIZE - CHUNK_OVERLAP
                   /\ rows[2].content.s < rows[1].content.s + rows[1].content.n
                   /\ rows[2].content.s + rows[2].content.n = body.s + 900

\* C20 (amended): a body of 500 characters is inserted as one chunk; a body
\* of 900 characters without any separator (blank line, newline, blank) is
\* inserted as two chunks of at most 500 characters, the first from the
\* start of the body, the second starting at most 400 characters in,
\* inside the first, and ending with the body.  Checked under SpecBatch.
C20_ChunkCountsWithoutSeparators ==
    (lastUpload.called /\ lastUpload.outcome = "uploaded") =>
      \A a \in 1..Len(lastUpload.records) :
         LET body == lastUpload.records[a].page_content
             rows == RowsOf(lastUpload.records[a].id)
         IN  /\ PyLen(body) = 500 => Len(rows) = 1
             /\ (PyLen(body) = 900 /\ ~HasParagraphs(body)
                 /\ body.lead = 0 /\ body.trail = 0) =>
                   /\ Len(rows) = 2
                   /\ rows[1].content.n <= CHUNK_SIZE
                   /\ rows[2].content.n <= CHUNK_SIZE
                   /\ rows[1].content.s = body.s
                   /\ rows[2].content.s <= body.s + CHUNK_SIZE - CHUNK_OVERLAP
                   /\ rows[2].content.s < rows[1].content.s + rows[1].content.n
                   /\ rows[2].content.s + rows[2].content.n = body.s + 900

\* C20 witness: a batch of a 500-character body and a 900-character body,
\* both without separators, was uploaded as three rows.
C20_Witness ==
    /\ lastUpload.called
    /\ lastUpload.outcome = "uploaded"
    /\ Len(lastUpload.records) = 2
    /\ lastUpload.records[1].page_content = Str("b500", 500)
    /\ lastUpload.records[2].page_content = Str("b900", 900)
    /\ Len(documents) = 3

\* C21: positional alignment of a successful upload.  Row i holds as
\* content the i-th surviving chunk of the batch, as embedding the vector
\* computed for that very chunk, and as metadata the metadata of the
\* record the chunk was cut from with source_id set to that record's
\* url; the rows inserted are as many as the surviving chunks.  Checked
\* under SpecBatch.
C21_PositionalAlignment ==
    (lastUpload.called /\ lastUpload.outcome = "uploaded") =>
      LET chunks == SurvivingChunks(lastUpload.records)
      IN  /\ Len(documents) = Len(chunks)
          /\ lastUpload.inserted = Len(chunks)
          /\ \A j \in 1..Len(chunks) :
                LET d == documents[j]
                    r == chunks[j].record
                IN  /\ d.content = chunks[j].text
                    /\ d.embedding = [py |-> "vector", of |-> chunks[j].text]
                    /\ d.metadata.source_id = r.metadata.url
                    /\ d.metadata.source_id = r.id
                    /\ \A f \in DOMAIN r.metadata :
                          d.metadata[f] = r.metadata[f]
                    /\ DOMAIN d.metadata = DOMAIN r.metadata \cup {"source_id"}

\* C21 witness: two records were uploaded as three rows, the first row
\* cut from the first record and the other two from the second.
C21_Witness ==
    /\ lastUpload.called
    /\ lastUpload.outcome = "uploaded"
    /\ Len(lastUpload.records) = 2
    /\ Len(documents) = 3
    /\ documents[1].metadata.source_id = lastUpload.records[1].id
    /\ documents[2].metadata.source_id = lastUpload.records[2].id
    /\ documents[2].content # documents[3].content
    /\ documents[2].embedding # documents[3].embedding

\* C22 (as claimed): the extraction phase of a run attempts at most
\* process_limit articles when a limit is given, whatever its value, and
\* every unprocessed article when none is given.  Checked under Spec.
C22_ProcessLimitBoundsExtraction ==
    pc = "extract" =>
      /\ process_limit # None => Len(work) <= process_limit.v
      /\ process_limit = None =>
            \A j \in 1..Len(articles) :
               articles[j].processed = 0 =>
                  \E k \in 1..Len(work) : work[k].url = articles[j].url

\* C23: when two collectors insert the same new url concurrently, in
\* every interleaving of their connect, execute and commit steps exactly
\* one of the two calls returns true and exactly one row with that url
\* exists afterwards; no two rows ever share a url.  Checked under
\* SpecCollectors.
C23_ConcurrentInsertOnce ==
    /\ \A j, k \in 1..Len(articles) :
          articles[j].url = articles[k].url => j = k
    /\ \A p, q \in Procs :
          LET a == collectors.proc[p]
              b == collectors.proc[q]
          IN  (/\ p # q
               /\ a.pc = "done" /\ b.pc = "done"
               /\ a.fresh /\ b.fresh
               /\ Get(a.item, "url", Empty) = Get(b.item, "url", Empty)) =>
                 /\ a.ret # b.ret
                 /\ Len(SelectSeq(articles,
                        LAMBDA r : r.url = Get(a.item, "url", Empty))) = 1

\* C23 witness: both collectors connected while https://a.test/1 was not
\* stored, with different results for it; the second INSERT waited for
\* the first commit and was ignored.
C23_Witness ==
    LET a == collectors.proc[1]
        b == collectors.proc[2]
    IN  /\ a.pc = "done" /\ b.pc = "done"
        /\ a.fresh /\ b.fresh
        /\ a.item = ResA /\ b.item = ResA2
        /\ ~a.ret /\ b.ret
        /\ Len(articles) = 1
        /\ articles[1].title = Get(ResA2, "title", Empty)

\* C24: an extraction makes at most two fetch attempts.  The first
\* verifies certificates; the second is made exactly when the first
\* returned no content, and disables the verification.  An exception in
\* either attempt is caught, gives no page and is followed by no further
\* attempt.  Without a page nothing is parsed and the article takes the
\* fallback path.  Checked under SpecExtract.
C24_FetchAtMostTwice ==
    lastExtract.called =>
      LET at == lastExtract.attempts
          env == lastExtract.env
      IN  /\ Len(at) \in {1, 2}
          /\ at[1].no_ssl = FALSE
          /\ Len(at) = 2 <=> env.fetch1 = "none"
          /\ Len(at) = 2 => at[2].no_ssl = TRUE
          /\ lastExtract.downloaded <=>
                \/ env.fetch1 = "html"
                \/ env.fetch1 = "none" /\ env.fetch2 = "html"
          /\ ~lastExtract.downloaded =>
                /\ lastExtract.parse = "skipped"
                /\ ~lastExtract.parsed
                /\ lastExtract.outcome # "DONE_PRIMARY"
                /\ Len(lastExtract.ret) = 1 =>
                      /\ lastExtract.outcome = "DONE_FALLBACK"
                      /\ lastExtract.ret[1].metadata.content_source
                            = "searxng_fallback"

\* C24 witness: the first fetch returned nothing, the second raised, and
\* the article was completed from its stored snippet.
C24_Witness ==
    /\ lastExtract.called
    /\ lastExtract.env.fetch1 = "none"
    /\ lastExtract.env.fetch2 = "raise"
    /\ Len(lastExtract.attempts) = 2
    /\ lastExtract.outcome = "DONE_FALLBACK"

\* Before every query of page page_num exactly the pages 1..page_num - 1
\* were queried, all of them with results; when the loop has ended, the
\* last page queried was empty or was page MaxPages.
CollectInOrder ==
    /\ pc = "collect" =>
          /\ page_num \in 1..MaxPages
          /\ lastCollect.queried = page_num - 1
          /\ lastCollect.queried >= 1 => lastCollect.results > 0
    /\ pc = "process" =>
          /\ lastCollect.queried \in 1..MaxPages
          /\ \/ lastCollect.results = 0 /\ lastCollect.queried = page_num
             \/ /\ lastCollect.results > 0
                /\ lastCollect.queried = MaxPages
                /\ page_num = MaxPages + 1

\* C25: collect queries the pages in increasing order from 1, each once,
\* at most MaxPages of them and none after the first page without
\* results; and collect always terminates: the page loop is always left.
\* Checked under SpecCollect.
C25_PagesInOrderUntilEmpty ==
    /\ []CollectInOrder
    /\ (pc = "collect") ~> (pc # "collect")

\* C25 witness: the first page stored articles, the second page was
\* empty and ended the collection.
C25_Witness ==
    /\ pc = "process"
    /\ lastCollect.queried = 2
    /\ lastCollect.results = 0
    /\ ~lastCollect.err
    /\ total_new_articles > 0

\* The urls of the articles this run extracted with an output, in list
\* order (the list is in rowid order).
DoneThisRun(rows) ==
    LET done == SelectSeq(rows,
                   LAMBDA r : /\ how[r.url] # <<>>
                              /\ Last(how[r.url]).run = topic
                              /\ Last(how[r.url]).path \in {"primary", "fallback"})
    IN  [k \in 1..Len(done) |-> done[k].url]

\* C26: the phases of one run are strictly ordered.  No article is
\* extracted in a run before its last search page is handled; nothing is
\* embedded or inserted before its last article is extracted; the records
\* given to the upload are exactly the non-null results of the run's
\* extractions, in extraction order, and no upload is called without any.
\* Checked under Spec.
C26_PhasesOrdered ==
    /\ pc \in {"collect", "process"} =>
          \A u \in Urls : \A k \in 1..Len(how[u]) : how[u][k].run # topic
    /\ pc \in {"collect", "process", "extract"} => ~lastUpload.called
    /\ pc = "upload" =>
          /\ i = Len(work)
          /\ \A k \in 1..Len(work) :
                how[work[k].url] # <<>> /\ Last(how[work[k].url]).run = topic
          /\ processed_records # <<>>
          /\ [k \in 1..Len(processed_records) |-> processed_records[k].id]
                = DoneThisRun(work)
          /\ Len(lastExtract.ret) = 1 =>
                Last(processed_records) = lastExtract.ret[1]
    /\ lastUpload.called =>
          /\ lastUpload.records # <<>>
          /\ [k \in 1..Len(lastUpload.records) |-> lastUpload.records[k].id]
                = DoneThisRun(articles)

\* C26 witness: a run extracted three articles, one of them without an
\* output, and uploaded the two records of the others.
C26_Witness ==
    /\ lastUpload.called
    /\ Len(lastUpload.records) = 2
    /\ \E u \in Urls :
          /\ how[u] # <<>>
          /\ Last(how[u]).run = topic
          /\ Last(how[u]).path \in {"error", "failed"}

\* The host of a url without a leading www label.
HostWithoutWww(url) ==
    LET netloc == url.netloc
        host == IF netloc[1] = "www" THEN Tail(netloc) ELSE netloc
    IN  Str(JoinLabels(host), Len(JoinLabels(host)))
NonEmpty(v) == IsStr(v) /\ v.n > 0
FirstNonEmpty(a, b) == IF NonEmpty(a) THEN a ELSE b

\* C27 (as claimed): every field of the output's metadata is the first
\* non-empty value of, in this order, the extracted metadata field, the
\* stored article field and the derived default; the source is the
\* extracted site name, else the stored source name, else the domain
\* parsed from the url.  Checked under SpecExtract.
C27_MetadataMergeOrder ==
    (lastExtract.called /\ Len(lastExtract.ret) = 1) =>
      LET m == lastExtract.ret[1].metadata
          row == lastExtract.article
          page == lastExtract.env.meta
          meta == IF lastExtract.downloaded /\ page # None
                  THEN page ELSE EmptyDict
      IN  /\ m.title = FirstNonEmpty(Get(meta, "title", None), row.title)
          /\ m.date = FirstNonEmpty(Get(meta, "date", None), row.published_date)
          /\ m.author = Get(meta, "author", Empty)
          /\ m.description =
                Take(FirstNonEmpty(Get(meta, "description", None), row.content),
                     DescriptionLen)
          /\ m.image_url =
                FirstNonEmpty(Get(meta, "image", None),
                              FirstNonEmpty(row.img_src, row.thumbnail))
          /\ m.source =
                FirstNonEmpty(Get(meta, "sitename", None),
                              FirstNonEmpty(row.source_name,
                                            HostWithoutWww(row.url)))
          /\ m.url = row.url

\* The extraction attempts of the current run for url u.
AttemptsThisRun(u) == Len(SelectSeq(how[u], LAMBDA h : h.run = topic))

\* C28 (as claimed): in the extraction phase every listed article is
\* attempted exactly once, in list order, whatever the stored fields and
\* the outcomes of the articles before it: at article i exactly the
\* articles before it have been attempted, the step attempts article i,
\* and the phase is left only with the last article of the list.
\* Checked under Spec.
C28_EveryListedArticleAttempted ==
    [][pc = "extract" =>
         /\ \A k \in 1..Len(work) :
               AttemptsThisRun(work[k].url) = IF k < i THEN 1 ELSE 0
         /\ Len(how'[work[i].url]) = Len(how[work[i].url]) + 1
         /\ pc' = "extract" => (i' = i + 1 /\ work' = work)
         /\ pc' # "extract" => i = Len(work)]_vars

\* Where the last extraction raised, read from the page and the stored
\* row it was run against: in a fetch attempt; in trafilatura.extract; in
\* the construction of the metadata (the description source is None);
\* in json.dumps (the page's date cannot be encoded).
FetchRaised ==
    LET env == lastExtract.env
    IN  env.fetch1 = "raise" \/ (env.fetch1 = "none" /\ env.fetch2 = "raise")
ParseRaised == lastExtract.downloaded /\ lastExtract.env.parse = "raise"
PageMeta ==
    IF lastExtract.downloaded /\ lastExtract.env.meta # None
    THEN lastExtract.env.meta ELSE EmptyDict
HasContent ==
    \/ lastExtract.downloaded /\ NonEmpty(lastExtract.env.text)
    \/ NonEmpty(lastExtract.article.content)
    \/ NonEmpty(lastExtract.article.title)
MetadataRaised ==
    /\ ~ParseRaised
    /\ HasContent
    /\ ~NonEmpty(Get(PageMeta, "description", None))
    /\ ~IsStr(lastExtract.article.content)
SerializationRaised ==
    /\ ~ParseRaised
    /\ HasContent
    /\ ~MetadataRaised
    /\ Get(PageMeta, "date", None) = PyObject
\* extract returned None, the row is processed without success and both
\* extracted columns are unset.
MarkedFailed ==
    LET row == RowOf(articles, lastExtract.url)
    IN  /\ lastExtract.ret = <<>>
        /\ lastExtract.outcome = "ERROR"
        /\ lastExtract.marks = 1
        /\ row.processed = 1
        /\ row.trafilatura_success = 0
        /\ row.extracted_content = None
        /\ row.extracted_metadata = None

\* C29 (as claimed): an exception while an article with a url is
\* extracted, be it in the fetch, the parsing, the construction of the
\* metadata or its serialization, makes extract return None and leaves
\* the article processed, without success, with both extracted columns
\* unset.  Checked under SpecExtract.
C29_ExceptionMarksFailed ==
    (/\ lastExtract.called
     /\ FetchRaised \/ ParseRaised \/ MetadataRaised \/ SerializationRaised)
       => MarkedFailed

\* C29 (amended): an exception in the parsing, the construction of the
\* metadata or its serialization makes extract return None and leaves the
\* article processed, without success, with both extracted columns unset;
\* the except branch is entered in no other way.  An exception in a fetch
\* attempt is caught by fetch_with_strategy: nothing is fetched or parsed
\* and the article takes the fallback path like after any failed fetch.
\* Checked under SpecExtract.
C29_ExceptionPastFetchMarksFailed ==
    lastExtract.called =>
      /\ (ParseRaised \/ MetadataRaised \/ SerializationRaised) => MarkedFailed
      /\ lastExtract.outcome = "ERROR" =>
            /\ ParseRaised \/ MetadataRaised \/ SerializationRaised
            /\ MarkedFailed
      /\ FetchRaised =>
            /\ ~lastExtract.downloaded
            /\ lastExtract.parse = "skipped"
            /\ ~MetadataRaised =>
                  lastExtract.outcome \in {"DONE_FALLBACK", "FAILED"}

\* C29 witness: json.dumps raised on the metadata of a page that was
\* fetched and parsed; the article is processed without success.
C29_Witness ==
    /\ lastExtract.called
    /\ SerializationRaised
    /\ lastExtract.parsed
    /\ MarkedFailed

\* The extractions of url u, over all runs, that returned an output.
Outputs(u) == SelectSeq(how[u], LAMBDA h : h.path \in {"primary", "fallback"})

LeftBehind(tbl) ==
    {j \in 1..Len(tbl) :
        /\ tbl[j].processed = 0
        /\ NonEmpty(tbl[j].content) \/ NonEmpty(tbl[j].title)}

\* C31 (as claimed): when a run without process_limit ends after its
\* collection, every stored article with a non-empty snippet or a
\* non-empty title is processed, also when the run stored nothing new;
\* the rows left unprocessed have neither snippet nor title.  Checked
\* under Spec.
C31_EventuallyProcessed ==
    [][(/\ pc \in {"process", "extract", "upload"}
        /\ pc' = "main"
        /\ process_limit = None) => LeftBehind(articles') = {}]_vars

\* The causes of failure of the request to the workflow and of the
\* polling: network error, missing execution id, unsuccessful finished
\* status, no finished execution within max_polls polls.
WorkflowFailures ==
    {RequestException("ConnectionError"), RequestException("HTTPError"),
     Exception("Did not get Execution ID"),
     Exception("Workflow finished with unsuccessful status: 'error'"),
     Exception("Workflow did not complete in the allotted time (timeout).")}
ErrorText(exc) ==
    CASE exc.class = "RequestException" ->
           Text("Network Error: Could not connect to N8N. Please check the URL. Details: ", exc.e)
      [] exc.class = "Exception" ->
           Text("An unexpected error occurred: ", exc.e)

\* The error message is appended to the body's messages as one assistant
\* message; an emitter, if pipe was given one, got as its last two events
\* the error status with that message and the final completion status,
\* whatever the emit interval.
FailureReported ==
    LET n == Len(pipe.events)
    IN  /\ pipe.messages =
              Append(pipe.before, [role |-> "assistant", content |-> ErrorText(pipe.exc)])
        /\ pipe.emitter =>
              /\ n >= 2
              /\ pipe.events[n - 1] =
                    [type |-> "status", status |-> "complete", level |-> "error",
                     description |-> ErrorText(pipe.exc), done |-> TRUE]
              /\ pipe.events[n] =
                    [type |-> "status", status |-> "complete", level |-> "info",
                     description |-> Text("Workflow complete.", ""), done |-> TRUE]
              /\ \A k \in 1..(n - 2) : ~pipe.events[k].done
        /\ ~pipe.emitter => n = 0

\* C32 (as claimed): when the request to the workflow or the polling of
\* its execution fails (network error, missing execution id, unsuccessful
\* finished status, no finished execution within max_polls polls), pipe
\* emits the error status, appends the error message to the body's
\* messages as an assistant message, emits the final completion status
\* and returns to its caller without raising.  Checked under SpecPipe.
C32_PipeFailureReported ==
    (pipe.pc # "idle" /\ pipe.exc \in WorkflowFailures) =>
      /\ FailureReported
      /\ pipe.pc = "returned"

====
